---- MODULE Spec2Model ----
(***************************************************************************)
(* A model of the AI Art Generator server.  Two builds of the server are   *)
(* in the repository: src/backend/server.js (one provider model, with the  *)
(* persistent storage endpoints) and src/unnamed/part_002 (five provider   *)
(* models with a fallback retry, no storage).  The variable `server` says  *)
(* which build is running.                                                 *)
(***************************************************************************)
EXTENDS Integers, Sequences, FiniteSets, TLC

VARIABLES
    server,   \* which server build runs: BACKEND or MULTI
    env,      \* process.env: [REPLICATE_API_TOKEN, OPENAI_API_KEY]
    alive,    \* the node process has not been terminated
    now,      \* the clock read by new Date()
    disk,     \* the files on disk: path -> content
    gen,      \* the POST /api/generate request in flight, or last answered
    dpi,      \* the POST /api/download-with-dpi request in flight, or last answered
    last,     \* the last storage or health request with its response
    ui        \* the GenerateTab component: its state and its requests in flight

vars == <<server, env, alive, now, disk, gen, dpi, last, ui>>

BACKEND == "src/backend/server.js"
MULTI == "src/unnamed/part_002"

(***************************************************************************)
(* Bounds of the model.                                                    *)
(***************************************************************************)
MaxClock == 1       \* the clock takes the values 0..MaxClock
MaxRand == 1        \* crypto.randomBytes / Math.random draw from 0..MaxRand
MaxData == 2        \* file contents are 1..MaxData
MaxImages == 6      \* a request carries at most this many reference images
MaxFiles == 2       \* at most this many files are created on disk
MaxPrompts == 3     \* the prompts text has at most this many lines
MaxClicks == 3      \* the user clicks Generate or Regenerate at most this often
MaxRegens == 2      \* at most this many regenerations are in flight

(***************************************************************************)
(* JavaScript values.  Every value is a record tagged with its type, so    *)
(* that values of different types can be compared.  Non-integer numbers    *)
(* are kept by their literal (Dec): the code only tests them for           *)
(* truthiness and passes them on.                                          *)
(***************************************************************************)
Undefined == [t |-> "undefined"]
Null == [t |-> "null"]
Num(n) == [t |-> "number", n |-> n]
Dec(lit) == [t |-> "number", d |-> lit]
Str(s) == [t |-> "string", s |-> s]
Bool(b) == [t |-> "boolean", b |-> b]
Arr(a) == [t |-> "array", a |-> a]
Obj(o) == [t |-> "object", o |-> o]

IsString(v) == v.t = "string"
IsArray(v) == v.t = "array"
IsNumber(v) == v.t = "number"

\* ToBoolean: undefined, null, false, 0 and "" are falsy
Falsy(v) ==
    \/ v = Undefined
    \/ v = Null
    \/ v = Bool(FALSE)
    \/ v = Num(0)
    \/ v = Str("")

\* a || b
OrElse(a, b) == IF Falsy(a) THEN b ELSE a

\* a destructuring default: `x = d` applies to undefined only
Default(v, d) == IF v = Undefined THEN d ELSE v

\* arr[0]
First(v) == IF Len(v.a) = 0 THEN Undefined ELSE v.a[1]

\* obj.field (undefined when absent)
Field(v, f) == IF v.t = "object" /\ f \in DOMAIN v.o THEN v.o[f] ELSE Undefined

\* { ...obj, key: value }
With(obj, key, value) == (key :> value) @@ obj

(***************************************************************************)
(* Strings.                                                                *)
(***************************************************************************)
CharAt(s, i) == SubSeq(s, i, i)

\* String.prototype.includes
Includes(s, needle) ==
    \E i \in 1..(Len(s) - Len(needle) + 1) : SubSeq(s, i, i + Len(needle) - 1) = needle

\* String.prototype.startsWith
StartsWith(s, prefix) ==
    /\ Len(prefix) <= Len(s)
    /\ SubSeq(s, 1, Len(prefix)) = prefix

EndsWith(s, suffix) ==
    /\ Len(suffix) <= Len(s)
    /\ SubSeq(s, Len(s) - Len(suffix) + 1, Len(s)) = suffix

WhiteSpace == {" ", "\t", "\n"}

RECURSIVE TrimStart(_)
TrimStart(s) ==
    IF Len(s) > 0 /\ CharAt(s, 1) \in WhiteSpace
    THEN TrimStart(SubSeq(s, 2, Len(s)))
    ELSE s

RECURSIVE TrimEnd(_)
TrimEnd(s) ==
    IF Len(s) > 0 /\ CharAt(s, Len(s)) \in WhiteSpace
    THEN TrimEnd(SubSeq(s, 1, Len(s) - 1))
    ELSE s

\* String.prototype.trim
Trim(s) == TrimEnd(TrimStart(s))

Digit(n) == CharAt("0123456789", n + 1)

(***************************************************************************)
(* Paths (node's posix path module, absolute paths).                       *)
(***************************************************************************)
RECURSIVE SplitFrom(_, _, _)
\* the "/"-separated segments of s from position i on; cur is the segment read so far
SplitFrom(s, i, cur) ==
    IF i > Len(s) THEN <<cur>>
    ELSE IF CharAt(s, i) = "/" THEN <<cur>> \o SplitFrom(s, i + 1, "")
    ELSE SplitFrom(s, i + 1, cur \o CharAt(s, i))

RECURSIVE Resolve(_, _)
\* segs with "" and "." dropped and ".." applied; stack is what is kept so far
Resolve(segs, stack) ==
    IF Len(segs) = 0 THEN stack
    ELSE IF Head(segs) \in {"", "."} THEN Resolve(Tail(segs), stack)
    ELSE IF Head(segs) = ".."
         THEN Resolve(Tail(segs), IF Len(stack) = 0 THEN stack
                                  ELSE SubSeq(stack, 1, Len(stack) - 1))
    ELSE Resolve(Tail(segs), Append(stack, Head(segs)))

RECURSIVE JoinSegs(_)
JoinSegs(segs) ==
    IF Len(segs) = 0 THEN ""
    ELSE IF Len(segs) = 1 THEN Head(segs)
    ELSE Head(segs) \o "/" \o JoinSegs(Tail(segs))

\* path.normalize of an absolute path
Normalize(p) ==
    LET kept == JoinSegs(Resolve(SplitFrom(p, 1, ""), <<>>))
    IN  "/" \o kept \o (IF Len(kept) > 0 /\ EndsWith(p, "/") THEN "/" ELSE "")

\* path.join(dir, name)
PathJoin(dir, name) == Normalize(dir \o "/" \o name)

\* path.dirname of a normalized absolute path
Dirname(p) ==
    LET segs == Resolve(SplitFrom(p, 1, ""), <<>>)
    IN  IF Len(segs) = 0 THEN "/"
        ELSE "/" \o JoinSegs(SubSeq(segs, 1, Len(segs) - 1))

\* path.basename of a normalized absolute path
Basename(p) ==
    LET segs == Resolve(SplitFrom(p, 1, ""), <<>>)
    IN  IF Len(segs) = 0 THEN "" ELSE segs[Len(segs)]

(***************************************************************************)
(* The storage tree.                                                       *)
(***************************************************************************)
APP_DIR == "/app"                           \* __dirname
UPLOADS_DIR == PathJoin(APP_DIR, "uploads")
GENERATED_DIR == PathJoin(UPLOADS_DIR, "generated")
CUSTOMER_DIR == PathJoin(UPLOADS_DIR, "customer")
BASE_DIR == PathJoin(UPLOADS_DIR, "base")

\* the directories that exist once ensureDirectories has run
ensureDirectories == {"/", APP_DIR, UPLOADS_DIR, GENERATED_DIR, CUSTOMER_DIR, BASE_DIR}

\* the ternary of saveImageFromUrl and saveImageFromBase64, and getCategoryDir
getCategoryDir(category) ==
    IF category = "customer" THEN CUSTOMER_DIR
    ELSE IF category = "base" THEN BASE_DIR
    ELSE GENERATED_DIR

\* fs.existsSync
existsSync(p) ==
    \/ p \in DOMAIN disk
    \/ p \in ensureDirectories
    \/ EndsWith(p, "/") /\ SubSeq(p, 1, Len(p) - 1) \in ensureDirectories

\* fs.writeFileSync throws: the target is a directory, its directory does
\* not exist, or the disk fails
writeThrows(p, diskError) ==
    \/ diskError
    \/ p \in ensureDirectories
    \/ EndsWith(p, "/")
    \/ Dirname(p) \notin ensureDirectories

\* the disk after fs.writeFileSync(p, data): a new file is born now, an
\* existing one keeps its birth time and gets the new content
writeFileSync(p, data) ==
    IF p \in DOMAIN disk
    THEN [disk EXCEPT ![p].data = data]
    ELSE (p :> [data |-> data, birthtime |-> now]) @@ disk

\* fs.unlinkSync throws: the target is a directory or the disk fails
unlinkThrows(p, diskError) ==
    \/ diskError
    \/ p \notin DOMAIN disk

unlinkSync(p) == [q \in DOMAIN disk \ {p} |-> disk[q]]

\* the files fs.readdirSync(dir) lists
readdirSync(dir) == {p \in DOMAIN disk : Dirname(p) = dir}

\* new Date().toISOString().replace(/[:.]/g, '-')
Timestamp == "T" \o Digit(now)

\* crypto.randomBytes(4).toString('hex')
uniqueId(rnd) == "0000000" \o Digit(rnd)

generateUniqueFilename(prefix, ext, rnd) ==
    prefix \o "-" \o Timestamp \o "-" \o uniqueId(rnd) \o "." \o ext

(***************************************************************************)
(* POST /api/generate: the request body and the provider payload.          *)
(***************************************************************************)
BodyFields ==
    {"prompt", "model", "aspect_ratio", "size", "guidance_scale",
     "num_inference_steps", "go_fast", "megapixels", "output_format",
     "output_quality", "disable_safety_checker", "safety_tolerance",
     "prompt_upsampling", "width", "height", "image_prompt", "num_outputs",
     "disable_nsfw_checker", "remove_background", "threshold", "stray_removal",
     "trim_background", "padding", "quality", "background", "moderation",
     "input_fidelity", "number_of_images", "output_compression", "input_images",
     "user_id", "openai_api_key", "seed"}

\* req.body with every field absent
EmptyBody == [f \in BodyFields |-> Undefined]

\* prompt.trim()
TrimPrompt(prompt) == Str(Trim(prompt.s))

\* !prompt?.trim(): the prompt is missing, or blank once trimmed
PromptMissing_NoTrim(prompt) ==
    \/ prompt \in {Undefined, Null}
    \/ IsString(prompt) /\ prompt.s = ""

PromptMissing(prompt) ==
    \/ prompt \in {Undefined, Null}
    \/ IsString(prompt) /\ Trim(prompt.s) = ""

\* prompt?.trim() throws a TypeError: the prompt has no trim method
PromptThrows(prompt) == prompt \notin {Undefined, Null} /\ ~IsString(prompt)

NaN == Dec("NaN")

RECURSIVE DigitsValue(_)
\* the number a string of decimal digits denotes
DigitsValue(s) ==
    IF Len(s) = 0 THEN 0
    ELSE DigitsValue(SubSeq(s, 1, Len(s) - 1)) * 10
            + (CHOOSE d \in 0..9 : Digit(d) = CharAt(s, Len(s)))

\* ToNumber of a number or a string, as Math.min converts its arguments
ToNumber(v) ==
    IF IsNumber(v) THEN v
    ELSE IF IsString(v) /\ \A i \in 1..Len(v.s) : Includes("0123456789", CharAt(v.s, i))
    THEN Num(DigitsValue(v.s))
    ELSE NaN

\* the count sent, were the requested one not clamped
MathMin_NoClamp(a, b) == ToNumber(a)

\* Math.min(a, b)
MathMin(a, b) ==
    IF ToNumber(a) = NaN \/ ToNumber(b) = NaN THEN NaN
    ELSE IF ToNumber(a).n <= ToNumber(b).n THEN ToNumber(a) ELSE ToNumber(b)

\* Math.round(v / 32) * 32 of an integer v
RoundTo32(v) == Num(((v.n + 16) \div 32) * 32)

\* seed !== undefined && seed !== null
Given(v) == v # Undefined /\ v # Null

\* the model name shown in logs and responses
modelName(model) ==
    IF model = Str("flux-schnell") THEN "Flux Schnell"
    ELSE IF model = Str("flux-1.1-pro") THEN "Flux 1.1 Pro"
    ELSE IF model = Str("stable-diffusion") THEN "Stable Diffusion"
    ELSE IF model = Str("openai-image-1.5") THEN "OpenAI Image 1.5"
    ELSE "SeedreamS-3"

\* the OpenAI key put in the payload: the request's, else the environment's
apiKey(b) == OrElse(b.openai_api_key, env.OPENAI_API_KEY)

\* the options both builds add to the OpenAI Image 1.5 payload when given
OpenAIOptional(b, base) ==
    LET p1 == IF ~Falsy(apiKey(b)) THEN With(base, "openai_api_key", apiKey(b)) ELSE base
        p2 == IF ~Falsy(b.input_fidelity)
              THEN With(p1, "input_fidelity", b.input_fidelity) ELSE p1
        p3 == IF ~Falsy(b.user_id) THEN With(p2, "user_id", b.user_id) ELSE p2
        p4 == IF ~Falsy(b.input_images) /\ IsArray(b.input_images)
                 /\ Len(b.input_images.a) > 0
              THEN With(p3, "input_images", b.input_images) ELSE p3
    IN  p4

\* the OpenAI Image 1.5 payload but for its aspect ratio
OpenAIParams(b, mappedAspectRatio) ==
    OpenAIOptional(b,
        [prompt |-> TrimPrompt(b.prompt),
         aspect_ratio |-> mappedAspectRatio,
         quality |-> OrElse(b.quality, Str("auto")),
         number_of_images |-> MathMin(OrElse(b.number_of_images, Num(1)), Num(10)),
         output_format |-> OrElse(b.output_format, Str("webp")),
         output_compression |-> OrElse(b.output_compression, Num(90)),
         background |-> OrElse(b.background, Str("auto")),
         moderation |-> OrElse(b.moderation, Str("auto"))])

\* the aspect ratio sent, were the requested one passed on unmapped
mappedAspectRatio_Unmapped(aspect_ratio) == aspect_ratio

\* src/backend/server.js: only 1:1, 3:2 and 2:3 pass, all else becomes 1:1
mappedAspectRatioBackend(aspect_ratio) ==
    IF aspect_ratio \in {Str("1:1"), Str("3:2"), Str("2:3")}
    THEN aspect_ratio
    ELSE Str("1:1")

\* src/unnamed/part_002: the listed landscape and portrait ratios are mapped
mappedAspectRatioMulti(aspect_ratio) ==
    IF aspect_ratio \in {Str("3:2"), Str("4:3"), Str("16:9"), Str("21:9")}
    THEN Str("3:2")
    ELSE IF aspect_ratio \in {Str("2:3"), Str("3:4"), Str("9:16")}
    THEN Str("2:3")
    ELSE Str("1:1")

\* src/backend/server.js: the provider call of a request body
inputParamsBackend(b) ==
    [model |-> "openai/gpt-image-1.5",
     input |-> OpenAIParams(b,
                 mappedAspectRatioBackend(Default(b.aspect_ratio, Str("1:1"))))]

RandomSeedRange == 1000000

\* Math.floor(Math.random() * 1000000): a draw rnd of 0..MaxRand stands for
\* the low seeds, and the last draw for the highest seed
RandomSeed(rnd) == IF rnd = MaxRand THEN Num(RandomSeedRange - 1) ELSE Num(rnd)

\* src/unnamed/part_002, model flux-schnell
FluxSchnellParams(b) ==
    LET base == [prompt |-> TrimPrompt(b.prompt),
                 aspect_ratio |-> Default(b.aspect_ratio, Str("1:1")),
                 num_inference_steps |-> OrElse(b.num_inference_steps, Num(4)),
                 go_fast |-> IF b.go_fast # Undefined THEN b.go_fast ELSE Bool(TRUE),
                 megapixels |-> OrElse(b.megapixels, Str("1")),
                 output_format |-> OrElse(b.output_format, Str("webp")),
                 output_quality |-> OrElse(b.output_quality, Num(80)),
                 disable_safety_checker |-> OrElse(b.disable_safety_checker, Bool(FALSE))]
    IN  IF Given(b.seed) THEN With(base, "seed", b.seed) ELSE base

\* src/unnamed/part_002, model flux-1.1-pro
FluxProParams(b) ==
    LET aspect_ratio == Default(b.aspect_ratio, Str("1:1"))
        base == [prompt |-> TrimPrompt(b.prompt),
                 aspect_ratio |-> aspect_ratio,
                 output_format |-> OrElse(b.output_format, Str("webp")),
                 output_quality |-> OrElse(b.output_quality, Num(80)),
                 safety_tolerance |-> OrElse(b.safety_tolerance, Num(2)),
                 prompt_upsampling |-> OrElse(b.prompt_upsampling, Bool(FALSE))]
        p1 == IF aspect_ratio = Str("custom") /\ Given(b.width)
              THEN With(base, "width", RoundTo32(b.width)) ELSE base
        p2 == IF aspect_ratio = Str("custom") /\ Given(b.height)
              THEN With(p1, "height", RoundTo32(b.height)) ELSE p1
        p3 == IF ~Falsy(b.image_prompt) /\ Trim(b.image_prompt.s) # ""
              THEN With(p2, "image_prompt", Str(Trim(b.image_prompt.s))) ELSE p2
    IN  IF Given(b.seed) THEN With(p3, "seed", b.seed) ELSE p3

\* src/unnamed/part_002, model stable-diffusion
StableDiffusionParams(b) ==
    LET base == [prompt |-> TrimPrompt(b.prompt),
                 width |-> OrElse(b.width, Num(1024)),
                 height |-> OrElse(b.height, Num(1024)),
                 num_outputs |-> OrElse(b.num_outputs, Num(1)),
                 disable_nsfw_checker |-> OrElse(b.disable_nsfw_checker, Bool(FALSE)),
                 remove_background |-> OrElse(b.remove_background, Bool(FALSE))]
        bg == [threshold |-> IF b.threshold # Undefined THEN b.threshold ELSE Num(80),
               stray_removal |-> IF b.stray_removal # Undefined THEN b.stray_removal
                                 ELSE Dec("0.01"),
               trim_background |-> OrElse(b.trim_background, Bool(FALSE))]
        p1 == IF ~Falsy(b.remove_background) THEN bg @@ base ELSE base
        p2 == IF ~Falsy(b.remove_background) /\ ~Falsy(b.trim_background)
              THEN With(p1, "padding", IF b.padding # Undefined THEN b.padding ELSE Num(0))
              ELSE p1
    IN  With(p2, "seed", IF Given(b.seed) THEN b.seed ELSE Num(-1))

\* src/unnamed/part_002, any other model: SeedreamS-3
SeedreamParams(b, rnd) ==
    [prompt |-> TrimPrompt(b.prompt),
     aspect_ratio |-> Default(b.aspect_ratio, Str("1:1")),
     size |-> OrElse(b.size, Str("regular")),
     guidance_scale |-> OrElse(b.guidance_scale, Dec("3.5")),
     seed |-> IF Given(b.seed) THEN b.seed ELSE RandomSeed(rnd)]

\* src/unnamed/part_002: the provider identifier of a model
replicateModelMulti(model) ==
    IF model = Str("flux-schnell") THEN "black-forest-labs/flux-schnell"
    ELSE IF model = Str("flux-1.1-pro") THEN "black-forest-labs/flux-1.1-pro"
    ELSE IF model = Str("stable-diffusion")
    THEN "zedge/stable-diffusion:328e5d9bb8ece3bc78d873f6d9c23070c3d656221b24350e034f4a1a4548f275"
    ELSE IF model = Str("openai-image-1.5") THEN "openai/gpt-image-1.5"
    ELSE "bytedance/seedream-3"

\* src/unnamed/part_002: the provider call of a request body
inputParamsMulti(b, rnd) ==
    LET model == Default(b.model, Str("seedream"))
    IN  [model |-> replicateModelMulti(model),
         input |->
            IF model = Str("flux-schnell") THEN FluxSchnellParams(b)
            ELSE IF model = Str("flux-1.1-pro") THEN FluxProParams(b)
            ELSE IF model = Str("stable-diffusion") THEN StableDiffusionParams(b)
            ELSE IF model = Str("openai-image-1.5")
            THEN OpenAIParams(b,
                     mappedAspectRatioMulti(Default(b.aspect_ratio, Str("1:1"))))
            ELSE SeedreamParams(b, rnd)]

\* the provider call the running build makes for a request body
inputParams(b, rnd) ==
    IF server = BACKEND THEN inputParamsBackend(b) ELSE inputParamsMulti(b, rnd)

\* src/unnamed/part_002: the payload of the fallback call
fallbackParams(b, sent, rnd) ==
    IF Default(b.model, Str("seedream")) = Str("flux-schnell")
    THEN [num_inference_steps |-> Num(1), megapixels |-> Str("0.25")] @@ sent
    ELSE [prompt |-> TrimPrompt(b.prompt),
          aspect_ratio |-> Default(b.aspect_ratio, Str("1:1")),
          size |-> IF b.size = Str("big") THEN Str("regular") ELSE b.size,
          guidance_scale |-> OrElse(b.guidance_scale, Dec("3.5")),
          seed |-> RandomSeed(rnd)]

(***************************************************************************)
(* POST /api/generate: responses.                                          *)
(***************************************************************************)
\* a response: res.status(status).json(body), or another kind of body
Json(status, body) == [status |-> status, kind |-> "json", body |-> Obj(body)]

\* no response has been sent
NoResponse == [status |-> 0, kind |-> "none", body |-> Undefined]

\* an Error with its message and its status property
Err(message, status) == [message |-> message, status |-> status]
NoError == Err(Undefined, Undefined)

\* error.message?.includes(needle)
MessageIncludes(message, needle) == IsString(message) /\ Includes(message.s, needle)

\* the status the outer catch chooses for an error message
ErrorStatus(message) ==
    IF MessageIncludes(message, "auth") \/ MessageIncludes(message, "token") THEN 401
    ELSE IF MessageIncludes(message, "not found") THEN 404
    ELSE IF MessageIncludes(message, "rate limit") THEN 429
    ELSE IF MessageIncludes(message, "insufficient credits") THEN 402
    ELSE 500

\* the response of the outer catch
ErrorResponse(b, error) ==
    LET statusCode == ErrorStatus(error.message)
        notAvailable ==
            IF server = BACKEND THEN "The OpenAI Image 1.5 model is not available"
            ELSE "The " \o modelName(b.model) \o " model is not available"
    IN  Json(statusCode,
            [error |-> Str(CASE statusCode = 401 -> "Authentication failed"
                             [] statusCode = 404 -> "Model not found"
                             [] statusCode = 429 -> "Rate limit exceeded"
                             [] statusCode = 402 -> "Insufficient credits"
                             [] OTHER -> "Image generation failed"),
             details |-> CASE statusCode = 401 -> Str("Invalid or missing Replicate API token")
                           [] statusCode = 404 -> Str(notAvailable)
                           [] statusCode = 429 -> Str("Too many requests. Please wait and try again.")
                           [] statusCode = 402 -> Str("Not enough Replicate credits to generate image")
                           [] OTHER -> error.message,
             timestamp |-> Num(now),
             success |-> Bool(FALSE)])

\* "Handle different output formats": the image URL taken from the provider
\* output, or the error thrown
extractImageUrl(output) ==
    LET picked ==
            IF IsArray(output) THEN [threw |-> FALSE, imageUrl |-> First(output)]
            ELSE IF IsString(output) THEN [threw |-> FALSE, imageUrl |-> output]
            ELSE IF ~Falsy(output) /\ ~Falsy(Field(output, "output"))
            THEN [threw |-> FALSE,
                  imageUrl |-> IF IsArray(Field(output, "output"))
                               THEN First(Field(output, "output"))
                               ELSE Field(output, "output")]
            ELSE IF ~Falsy(output) /\ ~Falsy(Field(output, "output_paths"))
            THEN [threw |-> FALSE,
                  imageUrl |-> IF IsArray(Field(output, "output_paths"))
                               THEN First(Field(output, "output_paths"))
                               ELSE Field(output, "output_paths")]
            ELSE [threw |-> TRUE, imageUrl |-> Undefined]
    IN  IF picked.threw
        THEN [threw |-> TRUE, imageUrl |-> Undefined,
              error |-> Err(Str("Unexpected output format from Replicate"), Undefined)]
        ELSE IF Falsy(picked.imageUrl)
        THEN [threw |-> TRUE, imageUrl |-> Undefined,
              error |-> Err(Str("No image URL received from Replicate"), Undefined)]
        ELSE [threw |-> FALSE, imageUrl |-> picked.imageUrl, error |-> NoError]

\* src/unnamed/part_002: the image URL taken from the output of the fallback call
fallbackImageUrl(output) == IF IsArray(output) THEN First(output) ELSE output

\* the inner catch, were it to try the fallback call after any failure
triesFallback_AnyError(error) == server = MULTI

\* src/unnamed/part_002: the inner catch tries the fallback call
triesFallback(error) ==
    server = MULTI
    /\ (MessageIncludes(error.message, "not found") \/ error.status = Num(404))

\* src/backend/server.js: the success response, savedImage being what
\* saveImageFromUrl returned, or null when it threw
SuccessBackend(b, call, imageUrl, savedImage) ==
    Json(200,
        [imageUrl |-> imageUrl,
         localUrl |-> OrElse(Field(savedImage, "url"), Null),
         savedImage |-> savedImage,
         prompt |-> TrimPrompt(b.prompt),
         timestamp |-> Num(now),
         model |-> Str("openai-image-1.5"),
         modelName |-> Str("OpenAI Image 1.5"),
         replicateModel |-> Str(call.model),
         parameters |-> Obj(call.input),
         success |-> Bool(TRUE)])

\* src/unnamed/part_002: the success response of the first or the fallback call
SuccessMulti(b, call, imageUrl, suffix, nameSuffix) ==
    LET model == Default(b.model, Str("seedream"))
    IN  Json(200,
            [imageUrl |-> imageUrl,
             prompt |-> TrimPrompt(b.prompt),
             timestamp |-> Num(now),
             model |-> IF suffix = "" THEN model ELSE Str(model.s \o suffix),
             modelName |-> Str(modelName(model) \o nameSuffix),
             replicateModel |-> Str(call.model),
             parameters |-> Obj(call.input),
             success |-> Bool(TRUE)])

(***************************************************************************)
(* The image persistence service (src/backend/server.js).                  *)
(***************************************************************************)
\* the content of a file or of a fetched image is known by its byte length
byteLength(data) == data

\* the result of axios.get(url, {responseType: 'arraybuffer'})
Fetched(contentType, data) == [ok |-> TRUE, contentType |-> contentType, data |-> data]
FetchFailed == [ok |-> FALSE, contentType |-> "", data |-> 0]

\* "Determine file extension from content-type or URL"
extOfFetched(contentType, imageUrl) ==
    IF Includes(contentType, "jpeg") \/ Includes(contentType, "jpg") THEN "jpg"
    ELSE IF Includes(contentType, "png") THEN "png"
    ELSE IF Includes(contentType, "gif") THEN "gif"
    ELSE IF Includes(imageUrl, ".jpg") \/ Includes(imageUrl, ".jpeg") THEN "jpg"
    ELSE IF Includes(imageUrl, ".png") THEN "png"
    ELSE "webp"

\* what a save returns: it threw (with a message), or the saved image and
\* the disk it leaves
SaveThrew(message) ==
    [threw |-> TRUE, message |-> Str(message), savedImage |-> Null, disk |-> disk]

Saved(filename, filePath, category, data) ==
    [threw |-> FALSE, message |-> Undefined,
     savedImage |-> Obj([filename |-> Str(filename),
                         path |-> Str(filePath),
                         url |-> Str("/uploads/" \o category \o "/" \o filename),
                         size |-> Num(byteLength(data))]),
     disk |-> writeFileSync(filePath, data)]

\* saveImageFromUrl(imageUrl, category): fetch is what axios.get gives, rnd
\* the random bytes drawn, diskError whether the disk fails
saveImageFromUrl(imageUrl, category, fetch, rnd, diskError) ==
    IF ~IsString(imageUrl) \/ ~fetch.ok THEN SaveThrew("fetch failed")
    ELSE LET ext == extOfFetched(fetch.contentType, imageUrl.s)
             filename == generateUniqueFilename("artwork", ext, rnd)
             filePath == PathJoin(getCategoryDir(category), filename)
         IN  IF writeThrows(filePath, diskError) THEN SaveThrew("write failed")
             ELSE Saved(filename, filePath, category, fetch.data)

\* an image as the caller sends it: plain base64 of `data` (mime ""), or the
\* data URL "data:<mime>;base64,<base64 of data>"
DataUri(mime, data) == [t |-> "string", mime |-> mime, data |-> data]

WordChars == "abcdefghijklmnopqrstuvwxyzABCDEFGHIJKLMNOPQRSTUVWXYZ0123456789_"

\* s matches \w+
IsWord(s) == Len(s) > 0 /\ \A i \in 1..Len(s) : Includes(WordChars, CharAt(s, i))

\* base64Data.match(/^data:image\/(\w+);base64,(.+)$/): the type matched, "" when none
matchedImageType(image) ==
    IF StartsWith(image.mime, "image/") /\ IsWord(SubSeq(image.mime, 7, Len(image.mime)))
    THEN SubSeq(image.mime, 7, Len(image.mime))
    ELSE ""

\* the extension saveImageFromBase64 gives a generated filename
extOfBase64(image) ==
    IF matchedImageType(image) = "" THEN "png"
    ELSE IF matchedImageType(image) = "jpeg" THEN "jpg"
    ELSE matchedImageType(image)

\* Buffer.from(imageData, 'base64'): the bytes of the image, or, of a data
\* URL that did not match, the bytes (0) its whole text decodes to
decodedBuffer(image) ==
    IF image.mime = "" \/ matchedImageType(image) # "" THEN image.data ELSE 0

\* saveImageFromBase64(base64Data, category, customFilename)
saveImageFromBase64(image, category, customFilename, rnd, diskError) ==
    LET filename == IF Falsy(customFilename)
                    THEN generateUniqueFilename("upload", extOfBase64(image), rnd)
                    ELSE customFilename.s
        filePath == PathJoin(getCategoryDir(category), filename)
    IN  IF writeThrows(filePath, diskError) THEN SaveThrew("write failed")
        ELSE Saved(filename, filePath, category, decodedBuffer(image))

(***************************************************************************)
(* POST /api/generate: the handler, one action per stretch between awaits. *)
(***************************************************************************)
\* the request answered at once
Answered(b, res) ==
    [phase |-> "done", body |-> b, calls |-> <<>>, settled |-> <<>>,
     imageUrl |-> Undefined, error |-> NoError, fetched |-> FetchFailed,
     saveError |-> Undefined, res |-> res]

\* a provider outcome: replicate.run resolves with an output or rejects
Resolves(output) == [ok |-> TRUE, output |-> output, error |-> NoError]
Rejects(message, status) == [ok |-> FALSE, output |-> Undefined, error |-> Err(message, status)]

\* the draws of Math.random a request body can lead to: only the SeedreamS-3
\* payload of part_002 draws a seed
randomDraws(b) ==
    IF server = MULTI /\ ~Given(b.seed) /\ ~PromptMissing(b.prompt) /\ ~PromptThrows(b.prompt)
       /\ Default(b.model, Str("seedream")) \notin
            {Str("flux-schnell"), Str("flux-1.1-pro"), Str("stable-diffusion"),
             Str("openai-image-1.5")}
    THEN 0..MaxRand
    ELSE {0}

IdleGenerate ==
    [phase |-> "idle", body |-> EmptyBody, calls |-> <<>>, settled |-> <<>>,
     imageUrl |-> Undefined, error |-> NoError, fetched |-> FetchFailed,
     saveError |-> Undefined, res |-> NoResponse]

\* the request arrives: validation, token check, payload, provider call
GenerateRequest(bodies) ==
    /\ alive
    /\ gen.phase = "idle"
    /\ \E b \in bodies : \E rnd \in randomDraws(b) :
        gen' = IF PromptThrows(b.prompt)
               THEN [Answered(b, ErrorResponse(b,
                        Err(Str("prompt?.trim is not a function"), Undefined)))
                     EXCEPT !.error = Err(Str("prompt?.trim is not a function"), Undefined)]
               ELSE IF PromptMissing(b.prompt)
               THEN Answered(b, Json(400, [error |-> Str("Prompt required")]))
               ELSE IF Falsy(env.REPLICATE_API_TOKEN)
               THEN Answered(b, Json(500,
                        [error |-> Str("Replicate API token not configured"),
                         details |-> Str("Please set REPLICATE_API_TOKEN environment variable")]))
               ELSE [IdleGenerate EXCEPT !.phase = "calling", !.body = b,
                                         !.calls = <<inputParams(b, rnd)>>]
    /\ UNCHANGED <<ui, server, env, alive, now, disk, dpi, last>>

\* the answered request is over: the handler keeps nothing of it
GenerateEnd ==
    /\ gen.phase = "done"
    /\ gen' = IdleGenerate
    /\ UNCHANGED <<ui, server, env, alive, now, disk, dpi, last>>

\* replicate.run settles: normalization, then the save (backend), the
\* response (part_002), the fallback call (part_002) or the error response
ProviderSettles(outcomes) ==
    /\ alive
    /\ gen.phase = "calling"
    /\ \E o \in outcomes : \E rnd \in (IF server = MULTI /\ ~o.ok THEN 0..MaxRand ELSE {0}) :
        LET b == gen.body
            call == gen.calls[1]
            x == extractImageUrl(o.output)
            error == IF o.ok THEN x.error ELSE o.error
        IN  gen' = IF o.ok /\ ~x.threw
                   THEN IF server = BACKEND
                        THEN [gen EXCEPT !.phase = "saving", !.settled = <<o>>,
                                         !.imageUrl = x.imageUrl]
                        ELSE [gen EXCEPT !.phase = "done", !.settled = <<o>>,
                                         !.imageUrl = x.imageUrl,
                                         !.res = SuccessMulti(b, call, x.imageUrl, "", "")]
                   ELSE IF triesFallback(error)
                   THEN [gen EXCEPT !.phase = "fallback", !.settled = <<o>>,
                                    !.error = error,
                                    !.calls = Append(@, [model |-> call.model,
                                        input |-> fallbackParams(b, call.input, rnd)])]
                   ELSE [gen EXCEPT !.phase = "done", !.settled = <<o>>, !.error = error,
                                    !.res = ErrorResponse(b, error)]
    /\ UNCHANGED <<ui, server, env, alive, now, disk, dpi, last>>

\* src/unnamed/part_002: the fallback call settles
FallbackSettles(outcomes) ==
    /\ alive
    /\ gen.phase = "fallback"
    /\ \E o \in outcomes :
        gen' = IF o.ok
               THEN [gen EXCEPT !.phase = "done", !.settled = Append(@, o),
                                !.imageUrl = fallbackImageUrl(o.output),
                                !.res = SuccessMulti(gen.body, gen.calls[2],
                                            fallbackImageUrl(o.output),
                                            "-fallback", " (fallback)")]
               ELSE [gen EXCEPT !.phase = "done", !.settled = Append(@, o),
                                !.res = ErrorResponse(gen.body, gen.error)]
    /\ UNCHANGED <<ui, server, env, alive, now, disk, dpi, last>>

\* the response once saveImageFromUrl has thrown, were the error passed on
AfterSave_Rethrow(b, call, imageUrl, saved) ==
    IF saved.threw THEN ErrorResponse(b, Err(saved.message, Undefined))
    ELSE SuccessBackend(b, call, imageUrl, saved.savedImage)

\* src/backend/server.js: the response once saveImageFromUrl has returned or
\* thrown (the catch leaves savedImage null)
AfterSave(b, call, imageUrl, saved) ==
    SuccessBackend(b, call, imageUrl, IF saved.threw THEN Null ELSE saved.savedImage)

\* src/backend/server.js: saveImageFromUrl settles and the response is sent
SaveSettles(fetches) ==
    /\ alive
    /\ gen.phase = "saving"
    /\ \E fetch \in fetches, rnd \in 0..MaxRand, diskError \in BOOLEAN :
        LET saved == saveImageFromUrl(gen.imageUrl, "generated", fetch, rnd, diskError)
        IN  /\ Cardinality(DOMAIN saved.disk) <= MaxFiles
            /\ disk' = saved.disk
            /\ gen' = [gen EXCEPT !.phase = "done",
                           !.fetched = fetch,
                           !.saveError = saved.message,
                           !.res = AfterSave(gen.body, gen.calls[1], gen.imageUrl, saved)]
    /\ UNCHANGED <<ui, server, env, alive, now, dpi, last>>

(***************************************************************************)
(* The storage endpoints (src/backend/server.js).  Each handler is         *)
(* synchronous: one action.                                                *)
(***************************************************************************)
Handled(op, req, res) == [op |-> op, req |-> req, res |-> res]

NoneHandled == Handled("none", Undefined, NoResponse)

\* the answered storage or health request is over
HandledEnd ==
    /\ last.op # "none"
    /\ last' = NoneHandled
    /\ UNCHANGED <<ui, server, env, alive, now, disk, gen, dpi>>

\* POST /api/images/upload
Upload(images, categories, filenames) ==
    /\ alive
    /\ last.op = "none"
    /\ server = BACKEND
    /\ \E image \in images, category \in categories, filename \in filenames :
       \E rnd \in (IF Falsy(filename) THEN 0..MaxRand ELSE {0}), diskError \in BOOLEAN :
        LET req == [image |-> image, category |-> category, filename |-> filename]
            saved == saveImageFromBase64(image, Default(category, Str("customer")).s,
                                         filename, rnd, diskError)
        IN  IF Falsy(image)
            THEN /\ disk' = disk
                 /\ last' = Handled("upload", req,
                                Json(400, [error |-> Str("Image data required (base64)")]))
            ELSE IF saved.threw
            THEN /\ disk' = disk
                 /\ last' = Handled("upload", req,
                                Json(500, [error |-> Str("Failed to upload image"),
                                           details |-> saved.message]))
            ELSE /\ Cardinality(DOMAIN saved.disk) <= MaxFiles
                 /\ disk' = saved.disk
                 /\ last' = Handled("upload", req,
                                Json(200, [success |-> Bool(TRUE),
                                           message |-> Str("Image uploaded to persistent storage")]
                                          @@ saved.savedImage.o))
    /\ UNCHANGED <<ui, server, env, alive, now, gen, dpi>>

\* "Security check - prevent directory traversal"
deleteDenied(filePath, targetDir) == ~StartsWith(filePath, targetDir)

\* DELETE /api/images/:category/:filename
Delete(categories, filenames) ==
    /\ alive
    /\ last.op = "none"
    /\ server = BACKEND
    /\ \E category \in categories, filename \in filenames, diskError \in BOOLEAN :
        LET req == [category |-> Str(category), filename |-> Str(filename)]
            targetDir == getCategoryDir(category)
            filePath == PathJoin(targetDir, filename)
        IN  IF deleteDenied(filePath, targetDir)
            THEN /\ disk' = disk
                 /\ last' = Handled("delete", req, Json(403, [error |-> Str("Access denied")]))
            ELSE IF ~existsSync(filePath)
            THEN /\ disk' = disk
                 /\ last' = Handled("delete", req, Json(404, [error |-> Str("Image not found")]))
            ELSE IF unlinkThrows(filePath, diskError)
            THEN /\ disk' = disk
                 /\ last' = Handled("delete", req,
                                Json(500, [error |-> Str("Failed to delete image"),
                                           details |-> Str("unlink failed")]))
            ELSE /\ disk' = unlinkSync(filePath)
                 /\ last' = Handled("delete", req,
                                Json(200, [success |-> Bool(TRUE),
                                           message |-> Str("Image deleted from persistent storage"),
                                           filename |-> Str(filename),
                                           category |-> Str(category)]))
    /\ UNCHANGED <<ui, server, env, alive, now, gen, dpi>>

\* the entry GET /api/images pushes for the file at path p read as category cat
imageEntry(p, cat) ==
    Obj([filename |-> Str(Basename(p)),
         category |-> Str(cat),
         url |-> Str("/uploads/" \o cat \o "/" \o Basename(p)),
         size |-> Num(byteLength(disk[p].data)),
         createdAt |-> Num(disk[p].birthtime)])

\* the entries of the categories listed
imageEntries(cats) ==
    UNION {{imageEntry(p, cat) : p \in readdirSync(getCategoryDir(cat))} : cat \in cats}

\* images.sort(newest first): the orders the sort can leave the entries in
sortedImages(entries) ==
    {s \in [1..Cardinality(entries) -> entries] :
        /\ \A i, j \in DOMAIN s : i # j => s[i] # s[j]
        /\ \A i, j \in DOMAIN s : i < j => s[i].o.createdAt.n >= s[j].o.createdAt.n}

\* GET /api/images?category=
List(categories) ==
    /\ alive
    /\ last.op = "none"
    /\ server = BACKEND
    /\ \E category \in categories, statError \in BOOLEAN :
        LET cats == IF Falsy(category) THEN {"generated", "customer", "base"}
                    ELSE {category.s}
        IN  IF statError /\ imageEntries(cats) # {}
            THEN last' = Handled("list", [category |-> category],
                             Json(500, [error |-> Str("Failed to list images"),
                                        details |-> Str("stat failed")]))
            ELSE \E images \in sortedImages(imageEntries(cats)) :
                    last' = Handled("list", [category |-> category],
                                Json(200, [success |-> Bool(TRUE),
                                           count |-> Num(Len(images)),
                                           images |-> Arr(images),
                                           storage |-> Obj([uploadsDir |-> Str(UPLOADS_DIR),
                                                            generatedDir |-> Str(GENERATED_DIR),
                                                            customerDir |-> Str(CUSTOMER_DIR)])]))
    /\ UNCHANGED <<ui, server, env, alive, now, disk, gen, dpi>>

\* app.use('/uploads', express.static(UPLOADS_DIR)): the file a GET of url is
\* answered from, "." and ".." segments resolved as the requesting client
\* resolves them; "" when the url is not under the mount
staticUploads(url) ==
    IF StartsWith(url, "/uploads/")
    THEN PathJoin(UPLOADS_DIR, SubSeq(url, Len("/uploads/") + 1, Len(url)))
    ELSE ""

\* the clock advances
Tick ==
    /\ now < MaxClock
    /\ now' = now + 1
    /\ UNCHANGED <<ui, server, env, alive, disk, gen, dpi, last>>

RECURSIVE IntToStr(_)
\* String(n) of a natural number
IntToStr(n) == IF n < 10 THEN Digit(n) ELSE IntToStr(n \div 10) \o Digit(n % 10)

BytesPerMB == 1048576

\* (bytes / (1024 * 1024)).toFixed(2)
totalSizeMB(bytes) ==
    LET hundredths == (bytes * 200 + BytesPerMB) \div (2 * BytesPerMB)
    IN  IntToStr(hundredths \div 100) \o "." \o Digit((hundredths % 100) \div 10)
            \o Digit(hundredths % 10)

RECURSIVE SumSizes(_)
SumSizes(paths) ==
    IF paths = {} THEN 0
    ELSE LET p == CHOOSE q \in paths : TRUE
         IN  byteLength(disk[p].data) + SumSizes(paths \ {p})

\* getDirectoryStats(dir)
getDirectoryStats(dir) ==
    [count |-> Cardinality(readdirSync(dir)), totalSize |-> SumSizes(readdirSync(dir))]

\* one directory's part of the stats response
directoryStats(dir) ==
    Obj([directory |-> Str(dir),
         count |-> Num(getDirectoryStats(dir).count),
         totalSize |-> Num(getDirectoryStats(dir).totalSize),
         totalSizeMB |-> Str(totalSizeMB(getDirectoryStats(dir).totalSize))])

\* GET /api/storage/stats
Stats ==
    /\ alive
    /\ last.op = "none"
    /\ server = BACKEND
    /\ \E statError \in BOOLEAN :
        LET all == {GENERATED_DIR, CUSTOMER_DIR, BASE_DIR}
            files == UNION {readdirSync(d) : d \in all}
        IN  last' = Handled("stats", Undefined,
                IF statError /\ files # {}
                THEN Json(500, [error |-> Str("Failed to get storage stats"),
                                details |-> Str("stat failed")])
                ELSE Json(200,
                        [success |-> Bool(TRUE),
                         storage |-> Obj(
                            [uploadsDir |-> Str(UPLOADS_DIR),
                             generated |-> directoryStats(GENERATED_DIR),
                             customer |-> directoryStats(CUSTOMER_DIR),
                             base |-> directoryStats(BASE_DIR),
                             total |-> Obj([count |-> Num(Cardinality(files)),
                                            totalSize |-> Num(SumSizes(files)),
                                            totalSizeMB |-> Str(totalSizeMB(SumSizes(files)))])])]))
    /\ UNCHANGED <<ui, server, env, alive, now, disk, gen, dpi>>

\* what express answers when a handler throws and catches nothing: its own
\* error page, which is not JSON
ExpressErrorPage == [status |-> 500, kind |-> "html", body |-> Undefined]

\* GET /api/health; writable is whether the uploads directory can be written
Health ==
    /\ alive
    /\ last.op = "none"
    /\ \E writable \in BOOLEAN :
        last' = Handled("health", Undefined,
            IF server = MULTI
            THEN Json(200, [status |-> Str("healthy"),
                            timestamp |-> Num(now),
                            version |-> Str("1.0.0"),
                            features |-> Obj(
                                [models |-> Arr(<<Str("seedream"), Str("flux-schnell"),
                                                  Str("flux-1.1-pro"), Str("stable-diffusion"),
                                                  Str("openai-image-1.5")>>),
                                 dpiProcessing |-> Bool(TRUE)])])
            ELSE IF existsSync(UPLOADS_DIR) /\ ~writable
            THEN ExpressErrorPage     \* fs.accessSync throws, nothing catches it
            ELSE Json(200, [status |-> Str("healthy"),
                            timestamp |-> Num(now),
                            version |-> Str("1.0.0"),
                            features |-> Obj(
                                [models |-> Arr(<<Str("openai-image-1.5")>>),
                                 dpiProcessing |-> Bool(TRUE),
                                 persistentStorage |-> Bool(TRUE)]),
                            storage |-> Obj([uploadsDir |-> Str(UPLOADS_DIR),
                                             writable |-> Bool(existsSync(UPLOADS_DIR))])]))
    /\ UNCHANGED <<ui, server, env, alive, now, disk, gen, dpi>>

(***************************************************************************)
(* POST /api/download-with-dpi.                                            *)
(***************************************************************************)
LowerCase == "abcdefghijklmnopqrstuvwxyz"
UpperCase == "ABCDEFGHIJKLMNOPQRSTUVWXYZ"

toLowerChar(c) ==
    IF Len(c) = 1 /\ Includes(UpperCase, c)
    THEN CharAt(LowerCase, CHOOSE i \in 1..Len(UpperCase) : CharAt(UpperCase, i) = c)
    ELSE c

RECURSIVE toLowerCase(_)
toLowerCase(s) ==
    IF Len(s) = 0 THEN ""
    ELSE toLowerChar(CharAt(s, 1)) \o toLowerCase(SubSeq(s, 2, Len(s)))

RECURSIVE replaceUnsafe(_)
\* .replace(/[^a-z0-9.-]/g, '-')
replaceUnsafe(s) ==
    IF Len(s) = 0 THEN ""
    ELSE (IF Includes(LowerCase \o "0123456789.-", CharAt(s, 1)) THEN CharAt(s, 1) ELSE "-")
         \o replaceUnsafe(SubSeq(s, 2, Len(s)))

RECURSIVE collapseHyphens(_)
\* .replace(/-+/g, '-')
collapseHyphens(s) ==
    IF Len(s) < 2 THEN s
    ELSE IF CharAt(s, 1) = "-" /\ CharAt(s, 2) = "-"
    THEN collapseHyphens(SubSeq(s, 2, Len(s)))
    ELSE CharAt(s, 1) \o collapseHyphens(SubSeq(s, 2, Len(s)))

SafeNameLength == 50

\* the name, were it not cut
substring50_Uncut(s) == s

\* .substring(0, 50)
substring50(s) == IF Len(s) > SafeNameLength THEN SubSeq(s, 1, SafeNameLength) ELSE s

safeFilename(name) ==
    LET cut == substring50(collapseHyphens(replaceUnsafe(toLowerCase(name))))
    IN  IF cut = "" THEN "file" ELSE cut

\* how the python3 worker of a request ends.  "converted": the script printed
\* {success: true, image} and left with code 0.  "rejected": an exception
\* inside its try, it printed {success: false, error} and left with code 1.
\* "crashed": it died outside the try (PIL missing) with a trace on stderr
\* and code 1.  "killed": ended by a signal, code null.  "unstarted":
\* python3 could not be spawned.
WorkerRuns == {"converted", "rejected", "crashed", "killed", "unstarted"}

\* the worker ended before it read its input: the write to its stdin can fail
stdinCanFail(worker) == worker \in {"crashed", "killed"}

\* what the worker writes to stdout, parsed (Undefined: nothing that parses)
workerStdout(worker, data) ==
    IF worker = "converted" THEN Obj([success |-> Bool(TRUE), image |-> Num(data)])
    ELSE IF worker = "rejected"
    THEN Obj([success |-> Bool(FALSE), error |-> Str("cannot identify image file")])
    ELSE Undefined

workerStderr(worker) == IF worker = "crashed" THEN "ModuleNotFoundError" ELSE ""

\* the exit code the close event carries
workerCode(worker) ==
    IF worker = "converted" THEN Num(0)
    ELSE IF worker = "killed" THEN Null
    ELSE Num(1)

NoDpi ==
    [phase |-> "idle", req |-> Undefined, worker |-> "", stdout |-> Undefined,
     stderr |-> "", piped |-> FALSE, sent |-> 0, res |-> NoResponse]

\* the request arrives: the URL is checked and the image fetch starts
DpiRequest(urls, filenames) ==
    /\ alive
    /\ dpi.phase = "idle"
    /\ \E imageUrl \in urls, filename \in filenames :
        LET req == [imageUrl |-> imageUrl, filename |-> filename]
        IN  dpi' = IF Falsy(imageUrl)
                   THEN [NoDpi EXCEPT !.phase = "done", !.req = req, !.sent = 1,
                                      !.res = Json(400, [error |-> Str("Image URL required")])]
                   ELSE [NoDpi EXCEPT !.phase = "fetching", !.req = req]
    /\ UNCHANGED <<ui, server, env, alive, now, disk, gen, last>>

\* the answered request is over
DpiEnd ==
    /\ dpi.phase = "done"
    /\ dpi' = NoDpi
    /\ UNCHANGED <<ui, server, env, alive, now, disk, gen, last>>

\* axios.get settles: on failure the catch answers; else the worker is
\* spawned, the listeners are set and the image is written to its stdin
DpiFetchSettles(fetches) ==
    /\ alive
    /\ dpi.phase = "fetching"
    /\ \E fetch \in fetches, worker \in WorkerRuns :
        dpi' = IF ~fetch.ok
               THEN [dpi EXCEPT !.phase = "done", !.sent = @ + 1,
                                !.res = Json(500, [error |-> Str("Failed to process image"),
                                                   details |-> Str("fetch failed")])]
               ELSE [dpi EXCEPT !.phase = "running", !.worker = worker,
                                !.req = [imageUrl |-> dpi.req.imageUrl,
                                         filename |-> dpi.req.filename,
                                         data |-> fetch.data]]
    /\ UNCHANGED <<ui, server, env, alive, now, disk, gen, last>>

\* python3 could not be spawned: the child emits 'error'; the handler set no
\* listener for it, so the event is thrown and ends the process
WorkerSpawnError ==
    /\ alive
    /\ dpi.phase = "running"
    /\ dpi.worker = "unstarted"
    /\ alive' = FALSE
    /\ UNCHANGED <<ui, server, env, now, disk, gen, dpi, last>>

\* the write to the worker's stdin fails (EPIPE): the stream emits 'error';
\* the handler set no listener for it, so the event is thrown and ends the process
WorkerStdinError ==
    /\ alive
    /\ dpi.phase = "running"
    /\ stdinCanFail(dpi.worker)
    /\ alive' = FALSE
    /\ UNCHANGED <<ui, server, env, now, disk, gen, dpi, last>>

\* the 'data' events of the worker's stdout and stderr
WorkerData ==
    /\ alive
    /\ dpi.phase = "running"
    /\ dpi.worker # "unstarted"
    /\ ~dpi.piped
    /\ dpi' = [dpi EXCEPT !.piped = TRUE,
                          !.stdout = workerStdout(dpi.worker, dpi.req.data),
                          !.stderr = workerStderr(dpi.worker)]
    /\ UNCHANGED <<ui, server, env, alive, now, disk, gen, last>>

\* the 'close' listener, were it to answer a failed worker as the catch
\* answers a failed fetch
closeResponse_AsFetchFailure(code, stdout, stderr, filename) ==
    Json(500, [error |-> Str("Failed to process image"), details |-> Str(stderr)])

\* the response of the 'close' listener
closeResponse(code, stdout, stderr, filename) ==
    IF code = Num(0)
    THEN IF stdout = Undefined \/ (~Falsy(filename) /\ ~IsString(filename))
         THEN Json(500, [error |-> Str("Processing output parse failed")])
         ELSE IF ~Falsy(Field(stdout, "success"))
         THEN [status |-> 200, kind |-> "binary",
               body |-> Obj([ContentType |-> Str("image/jpeg"),
                             ContentDisposition |->
                                Str("attachment; filename=\""
                                    \o (IF Falsy(filename) THEN "artwork.jpg"
                                        ELSE safeFilename(filename.s)) \o "\""),
                             XDPIProcessing |-> Str("true"),
                             XDPIValue |-> Str("300"),
                             data |-> Field(stdout, "image")])]
         ELSE Json(500, [error |-> Str("Image processing failed"),
                         details |-> Field(stdout, "error")])
    ELSE Json(500, [error |-> Str("Python process failed"), details |-> Str(stderr)])

\* the worker's 'close' event, after its output has been read
WorkerClose ==
    /\ alive
    /\ dpi.phase = "running"
    /\ dpi.worker # "unstarted"
    /\ dpi.piped
    /\ dpi' = [dpi EXCEPT !.phase = "done", !.sent = @ + 1,
                          !.res = closeResponse(workerCode(dpi.worker), dpi.stdout,
                                                dpi.stderr, dpi.req.filename)]
    /\ UNCHANGED <<ui, server, env, alive, now, disk, gen, last>>

(***************************************************************************)
(* The GenerateTab component (src/frontend/src/components/GenerateTab.js). *)
(* A handler runs up to its next await in one action; the requests it has  *)
(* sent and not yet seen answered are ui.inflight.                         *)
(***************************************************************************)
\* prompts.split('\n').map(p => p.trim()).filter(p => p.length > 0), the text
\* being given as its lines
promptLines(text) ==
    SelectSeq([i \in DOMAIN text |-> Trim(text[i])], LAMBDA p : p # "")

\* the image of the response to request i of click c (i is 0 for a regeneration)
ImageOf(c, i) == c * (MaxPrompts + 1) + i

\* the result entry built from a success response
Result(prompt, image) == [prompt |-> prompt, image |-> image]

\* the run of generateImages: attempted and outcomes are the record of the
\* prompts whose request was sent and of how each request settled
NoBatch == [running |-> FALSE, click |-> 0, promptLines |-> <<>>, i |-> 0,
            newResults |-> <<>>, attempted |-> <<>>, outcomes |-> <<>>]

\* regenerated is the record of the regenerations that succeeded since the
\* results were last replaced by a batch: index -> image
IdleUi ==
    [generating |-> FALSE, results |-> <<>>, regeneratingIndex |-> 0, clicks |-> 0,
     batch |-> NoBatch, inflight |-> <<>>, regenerated |-> <<>>]

\* the loop of generateImages, were it not to await its fetch: from prompt i
\* on every request is sent at once
loopSends_NoAwait(lines, i) == [k \in 1..(Len(lines) - i + 1) |-> i + k - 1]

\* the loop of generateImages awaits the fetch of prompt i before it goes on:
\* the indices of the prompts whose request is sent before the handler yields
loopSends(lines, i) == <<i>>

\* the fetch('/api/generate') calls of the batch of click c
BatchRequests(c, lines, sent) ==
    [k \in DOMAIN sent |->
        [by |-> "batch", click |-> c, prompt |-> lines[sent[k]], index |-> sent[k],
         results |-> <<>>]]

\* the inner try/catch, were a network error to leave the loop
continuesAfter_Rethrow(outcome) == outcome # "network"

\* the inner try/catch of the loop catches every failure of a prompt
continuesAfter(outcome) == TRUE

\* s without its element k
Without(s, k) == SubSeq(s, 1, k - 1) \o SubSeq(s, k + 1, Len(s))

\* the Generate button is clicked (disabled={generating || !prompts.trim()}):
\* generateImages runs to its first fetch
ClickGenerate(texts) ==
    /\ ~ui.generating
    /\ ui.clicks < MaxClicks
    /\ \E text \in texts :
        LET lines == promptLines(text)
            c == ui.clicks + 1
            sent == loopSends(lines, 1)
        IN  /\ lines # <<>>
            /\ ui' = [ui EXCEPT !.clicks = c,
                                !.generating = TRUE,
                                !.results = <<>>,
                                !.regenerated = <<>>,
                                !.batch = [running |-> TRUE, click |-> c,
                                           promptLines |-> lines, i |-> 1,
                                           newResults |-> <<>>,
                                           attempted |-> [k \in DOMAIN sent |-> lines[sent[k]]],
                                           outcomes |-> <<>>],
                                !.inflight = @ \o BatchRequests(c, lines, sent)]
    /\ UNCHANGED <<server, env, alive, now, disk, gen, dpi, last>>

\* a fetch of the batch settles ("success": response.ok and success;
\* "error": an error response; "network": fetch or response.json() rejects):
\* the loop goes on to the next prompt, or generateImages ends
BatchSettles(outcomes) ==
    /\ \E k \in DOMAIN ui.inflight, outcome \in outcomes :
        LET r == ui.inflight[k]
            b == ui.batch
            rest == Without(ui.inflight, k)
            newResults == IF outcome = "success"
                          THEN Append(b.newResults, Result(r.prompt, ImageOf(r.click, r.index)))
                          ELSE b.newResults
            sent == loopSends(b.promptLines, b.i + 1)
        IN  /\ r.by = "batch"
            /\ ui' = IF ~continuesAfter(outcome)
                     THEN [ui EXCEPT !.inflight = rest, !.generating = FALSE,
                                     !.batch = [b EXCEPT !.running = FALSE,
                                                         !.outcomes = Append(@, outcome)]]
                     ELSE IF b.i < Len(b.promptLines)
                     THEN [ui EXCEPT !.inflight = rest \o BatchRequests(r.click, b.promptLines, sent),
                                     !.batch = [b EXCEPT !.i = @ + 1,
                                                         !.newResults = newResults,
                                                         !.outcomes = Append(@, outcome),
                                                         !.attempted = @ \o
                                                            [j \in DOMAIN sent |-> b.promptLines[sent[j]]]]]
                     ELSE [ui EXCEPT !.inflight = rest, !.generating = FALSE,
                                     !.results = newResults,
                                     !.regenerated = <<>>,
                                     !.batch = [b EXCEPT !.running = FALSE,
                                                         !.newResults = newResults,
                                                         !.outcomes = Append(@, outcome)]]
    /\ UNCHANGED <<server, env, alive, now, disk, gen, dpi, last>>

\* the regenerations in flight
regenerations == {k \in DOMAIN ui.inflight : ui.inflight[k].by = "regen"}

\* the Regenerate button of result index is clicked
\* (disabled={regeneratingIndex === index}): regenerateImage runs to its
\* fetch, holding the results of the render it was created in
ClickRegenerate ==
    /\ ui.clicks < MaxClicks
    /\ Cardinality(regenerations) < MaxRegens
    /\ \E index \in DOMAIN ui.results :
        /\ ui.regeneratingIndex # index
        /\ ui' = [ui EXCEPT !.clicks = @ + 1,
                            !.regeneratingIndex = index,
                            !.inflight = Append(@, [by |-> "regen", click |-> ui.clicks + 1,
                                                    prompt |-> ui.results[index].prompt,
                                                    index |-> index,
                                                    results |-> ui.results])]
    /\ UNCHANGED <<server, env, alive, now, disk, gen, dpi, last>>

\* the fetch of a regeneration settles: on success the results the handler
\* holds, with the new image at its index, are set; regeneratingIndex is reset
RegenSettles(outcomes) ==
    /\ \E k \in regenerations, outcome \in outcomes :
        LET r == ui.inflight[k]
            image == ImageOf(r.click, 0)
        IN  ui' = IF outcome = "success"
                  THEN [ui EXCEPT !.inflight = Without(@, k),
                                  !.regeneratingIndex = 0,
                                  !.results = [r.results EXCEPT ![r.index] =
                                                  Result(r.prompt, image)],
                                  !.regenerated = (r.index :> image) @@ @]
                  ELSE [ui EXCEPT !.inflight = Without(@, k),
                                  !.regeneratingIndex = 0]
    /\ UNCHANGED <<server, env, alive, now, disk, gen, dpi, last>>

(***************************************************************************)
(* The inputs the requests are drawn from.                                 *)
(***************************************************************************)
Body(prompt, model) == [EmptyBody EXCEPT !.prompt = prompt, !.model = model]

Prompts ==
    {Undefined, Null, Str(""), Str(" "), Str(" \t\n"), Str("a"), Str(" a cat "), Num(7)}

SupportedModels ==
    {Str("seedream"), Str("flux-schnell"), Str("flux-1.1-pro"), Str("stable-diffusion"),
     Str("openai-image-1.5")}

Models == SupportedModels \cup {Undefined, Str("dall-e")}

Landscape == {Str("3:2"), Str("4:3"), Str("16:9"), Str("21:9"), Str("5:4"), Str("2:1")}
Portrait == {Str("2:3"), Str("3:4"), Str("9:16"), Str("4:5"), Str("1:2")}
AspectRatios ==
    Landscape \cup Portrait
    \cup {Undefined, Null, Num(2), Str(""), Str("1:1"), Str("custom"), Str("banana")}

\* every prompt with every model, nothing else given
PromptBodies == {Body(p, m) : p \in Prompts, m \in Models}

\* OpenAI Image 1.5 with every aspect ratio, the other models with some
RatioBodies ==
    {[Body(Str("a"), Str("openai-image-1.5")) EXCEPT !.aspect_ratio = r] : r \in AspectRatios}
    \cup {[Body(Str("a"), m) EXCEPT !.aspect_ratio = r] :
            m \in Models, r \in {Str("16:9"), Str("custom")}}

\* the reference images of a request: n data URIs in order
ReferenceImages(n) == Arr([i \in 1..n |-> Str("data:image/png;base64," \o Digit(i))])

\* OpenAI Image 1.5 requests with no, some and many reference images
ImagesBodies ==
    {[Body(Str("a"), Str("openai-image-1.5")) EXCEPT !.input_images = ReferenceImages(n)] :
        n \in {0, 2, MaxImages}}

\* requests with a number of images
CountBodies ==
    {[Body(Str("a"), m) EXCEPT !.number_of_images = n] :
        m \in {Undefined, Str("openai-image-1.5")},
        n \in {Num(0), Num(1), Num(10), Num(11), Num(50), Num(-3), Str("20"), Str("many")}}

MapperBodies == PromptBodies \cup RatioBodies \cup ImagesBodies \cup CountBodies

\* requests that give one option of a model: the step, tolerance and output
\* counts, the custom size of flux-1.1-pro, and the options whose smallest
\* value is 0 or false
OptionValues == {Undefined, Num(0), Num(1), Num(4), Num(5), Num(6), Num(7), Num(50)}
Sizes == {Undefined, Null, Num(0), Num(15), Num(16), Num(32), Num(47), Num(48), Num(1000), Num(1024)}
OptionBodies ==
    {[Body(Str("a"), Str("flux-schnell")) EXCEPT !.num_inference_steps = v] : v \in OptionValues}
    \cup {[Body(Str("a"), Str("flux-1.1-pro")) EXCEPT !.safety_tolerance = v] : v \in OptionValues}
    \cup {[Body(Str("a"), Str("stable-diffusion")) EXCEPT !.num_outputs = v] : v \in OptionValues}
    \cup {[Body(Str("a"), Str("flux-1.1-pro"))
            EXCEPT !.aspect_ratio = r, !.width = w, !.height = h] :
                r \in {Str("custom"), Str("16:9")}, w \in Sizes, h \in {Undefined, Num(700)}}
    \cup {[Body(Str("a"), m) EXCEPT !.output_compression = v, !.output_quality = v] :
            m \in {Str("openai-image-1.5"), Str("flux-schnell"), Str("flux-1.1-pro")},
            v \in {Num(0), Num(50), Num(100)}}
    \cup {[Body(Str("a"), m) EXCEPT !.go_fast = v, !.prompt_upsampling = v,
                                     !.disable_safety_checker = v] :
            m \in {Str("flux-schnell"), Str("flux-1.1-pro")}, v \in {Bool(FALSE), Bool(TRUE)}}
OptionOutcomes == {Rejects(Str("boom"), Undefined)}

ImageUrl1 == Str("https://replicate.delivery/out-0.png")
ImageUrl2 == Str("https://replicate.delivery/out-1")

ProviderOutputs ==
    {ImageUrl1, Str(""), Arr(<<>>), Arr(<<ImageUrl2, ImageUrl1>>),
     Obj([output |-> ImageUrl1]), Obj([output |-> Arr(<<ImageUrl2>>)]),
     Obj([output |-> Arr(<<>>)]),
     Obj([output_paths |-> ImageUrl2]), Obj([output_paths |-> Arr(<<ImageUrl1>>)]),
     Obj([id |-> Str("p1")]), Null, Undefined, Num(7)}

ErrorMessages ==
    {Str("Invalid token"), Str("Unauthorized"), Str("Model not found"),
     Str("rate limit exceeded"), Str("insufficient credits"),
     Str("token not found"), Str("not found: rate limit"),
     Str("rate limit: insufficient credits"), Str("Not Found"), Str("boom"), Undefined}

ProviderOutcomes ==
    {Resolves(o) : o \in ProviderOutputs}
    \cup {Rejects(m, Undefined) : m \in ErrorMessages}
    \cup {Rejects(Str("Request failed"), Num(404))}

PlainFetches == {FetchFailed, Fetched("image/png", 1)}

\* the prompts text, by its lines, and how a fetch of the component settles
PromptTexts ==
    {<<"a cat">>, <<" a cat ", "", "a dog", "  ">>, <<"a", "b", "c">>, <<"", " ">>,
     [i \in 1..MaxPrompts |-> "a"]}
FetchOutcomes == {"success", "error", "network"}

\* the file names download requests give: upper case, blanks, quotes, line
\* breaks, slashes, runs of hyphens, nothing safe at all, and names longer
\* than the cut, one of them with an unsafe run across it
DpiFilenames ==
    {Str("My Art.JPG"), Str("a  b"), Str("---"), Str("file"), Str("x\"y\nz"),
     Str("../../etc/passwd"), Str("a--b.-.c"), Str("!"),
     Str("0123456789012345678901234567890123456789012345678901.png"),
     Str("ABCDEFGHIJKLMNOPQRSTUVWXYZabcdefghijklmnopqrstuvw  !!xyz")}

\* the image URLs a provider returns and the fetches of them
SaveUrls ==
    {ImageUrl1, ImageUrl2, Str("https://replicate.delivery/out-2.jpg"),
     Str("https://replicate.delivery/out-3.webp")}
SaveOutcomes == {Resolves(u) : u \in SaveUrls}
SaveContentTypes ==
    {"image/jpeg", "image/png", "image/gif", "image/webp", "application/octet-stream", ""}
SaveFetches == {FetchFailed} \cup {Fetched(ct, 1) : ct \in SaveContentTypes}

Categories == {"generated", "customer", "base", "women-outfits"}

Filenames == {"a.png", "../basement.png", "../customer/a.png", ".", "..", "../../etc/passwd"}

\* the bodies of upload requests and the queries of list requests
UploadImages == {Undefined, DataUri("image/jpeg", 1), DataUri("image/jpeg", MaxData)}
UploadCategories == {Undefined, Str("base"), Str("generated"), Str("men-outfits")}
UploadFilenames ==
    {Str("a.png"), Str("../basement.png"), Str("../customer/a.png"), Str("."), Str(".."),
     Str("../../etc/passwd")}
ListCategories ==
    {Undefined, Str("generated"), Str("customer"), Str("base"), Str("women-outfits")}

(***************************************************************************)
(* The specifications.                                                     *)
(***************************************************************************)
Init ==
    /\ server \in {BACKEND, MULTI}
    /\ env \in [REPLICATE_API_TOKEN : {Undefined, Str("r8_token")},
                OPENAI_API_KEY : {Undefined, Str("sk-env")}]
    /\ alive = TRUE
    /\ now = 0
    /\ disk = [p \in {} |-> 0]
    /\ gen = IdleGenerate
    /\ dpi = NoDpi
    /\ last = NoneHandled
    /\ ui = IdleUi

\* the whole server, with few inputs to each handler
Next ==
    \/ GenerateRequest({Body(Str("a cat"), Undefined)})
    \/ ProviderSettles({Resolves(ImageUrl1), Rejects(Str("Model not found"), Undefined)})
    \/ FallbackSettles({Rejects(Str("boom"), Undefined)})
    \/ SaveSettles({FetchFailed})
    \/ GenerateEnd
    \/ Upload({DataUri("", 1)}, {Str("base")}, {Str("a.png")})
    \/ Delete({"base"}, {"a.png"})
    \/ List({Undefined})
    \/ Stats
    \/ Health
    \/ HandledEnd
    \/ DpiRequest({Undefined, ImageUrl1}, {Str("My Art.JPG")})
    \/ DpiFetchSettles(PlainFetches)
    \/ WorkerSpawnError
    \/ WorkerStdinError
    \/ WorkerData
    \/ WorkerClose
    \/ DpiEnd

Spec == Init /\ [][Next]_vars

\* the generate handler of both builds, with every request body and every
\* provider outcome
NextGenerate ==
    \/ GenerateRequest(MapperBodies)
    \/ ProviderSettles(ProviderOutcomes)
    \/ FallbackSettles(ProviderOutcomes)
    \/ SaveSettles(PlainFetches)
    \/ GenerateEnd

SpecGenerate == Init /\ [][NextGenerate]_vars

\* the storage endpoints of src/backend/server.js with the file names
\* callers give
NextStorage ==
    \/ Upload(UploadImages, UploadCategories, UploadFilenames)
    \/ Delete(Categories, Filenames)
    \/ List(ListCategories)
    \/ Stats
    \/ HandledEnd

SpecStorage == Init /\ [][NextStorage]_vars

\* POST /api/download-with-dpi alone.  The fetch settles (axios has a
\* timeout), the worker's pending events are delivered and the 'error' of a
\* worker that could not start is emitted; a failing write to stdin is
\* possible, never certain
NextDpi ==
    \/ DpiRequest({Undefined, ImageUrl1}, {Undefined, Str("A b")})
    \/ DpiFetchSettles(PlainFetches)
    \/ WorkerSpawnError
    \/ WorkerStdinError
    \/ WorkerData
    \/ WorkerClose
    \/ DpiEnd

SpecDpi ==
    /\ Init
    /\ [][NextDpi]_vars
    /\ WF_vars(DpiFetchSettles(PlainFetches))
    /\ WF_vars(WorkerSpawnError)
    /\ WF_vars(WorkerData)
    /\ WF_vars(WorkerClose)

\* the GenerateTab component.  Every fetch settles (the claims on it assume
\* so)
NextUi ==
    \/ ClickGenerate(PromptTexts)
    \/ BatchSettles(FetchOutcomes)
    \/ ClickRegenerate
    \/ RegenSettles(FetchOutcomes)

SpecUi ==
    /\ Init
    /\ [][NextUi]_vars
    /\ WF_vars(BatchSettles(FetchOutcomes))
    /\ WF_vars(RegenSettles(FetchOutcomes))

\* POST /api/download-with-dpi with the file names callers give
NextFilename ==
    \/ DpiRequest({ImageUrl1}, DpiFilenames)
    \/ DpiFetchSettles(PlainFetches)
    \/ WorkerSpawnError
    \/ WorkerStdinError
    \/ WorkerData
    \/ WorkerClose
    \/ DpiEnd

SpecFilename == Init /\ [][NextFilename]_vars

\* the provider payload of requests that give options
NextOptions ==
    \/ GenerateRequest(OptionBodies)
    \/ ProviderSettles(OptionOutcomes)
    \/ GenerateEnd

SpecOptions == Init /\ [][NextOptions]_vars

\* the save of a generated image: the image URLs the provider can return and
\* the content types the fetch of one can come with
NextSave ==
    \/ GenerateRequest({Body(Str("a cat"), Undefined)})
    \/ ProviderSettles(SaveOutcomes)
    \/ SaveSettles(SaveFetches)
    \/ GenerateEnd

SpecSave == Init /\ [][NextSave]_vars

(***************************************************************************)
(* The claims.                                                             *)
(***************************************************************************)
\* the prompt is missing, empty or only whitespace
BlankPrompt(prompt) ==
    \/ prompt \in {Undefined, Null}
    \/ IsString(prompt) /\ \A i \in 1..Len(prompt.s) : CharAt(prompt.s, i) \in WhiteSpace

\* the field of a JSON response body, undefined when the body has none
ResField(res, name) == Field(res.body, name)

\* C1: a generate request whose prompt is missing, empty or only whitespace
\* is answered with status 400, whatever model it names, and no provider
\* call is made for it.
C1_BlankPromptRejected ==
    (gen.phase # "idle" /\ BlankPrompt(gen.body.prompt))
        => (gen.phase = "done" /\ gen.res.status = 400 /\ gen.calls = <<>>)

\* a whitespace prompt sent for flux-schnell has been answered with 400
C1_Witness ==
    /\ gen.phase = "done"
    /\ gen.body.prompt = Str(" \t\n")
    /\ gen.body.model = Str("flux-schnell")
    /\ ~Falsy(env.REPLICATE_API_TOKEN)
    /\ gen.res.status = 400
    /\ gen.calls = <<>>

\* C3: when the provider call succeeded with an image URL and saving the
\* image failed, the response is still the success response: success true,
\* the remote imageUrl, localUrl null.
C3_SaveFailureSwallowed ==
    (gen.phase = "done" /\ gen.saveError # Undefined)
        => /\ gen.res.status = 200
           /\ gen.res.kind = "json"
           /\ ResField(gen.res, "success") = Bool(TRUE)
           /\ ResField(gen.res, "imageUrl") = gen.imageUrl
           /\ ResField(gen.res, "localUrl") = Null

\* a generation whose image URL came and whose save threw has been answered
C3_Witness ==
    /\ gen.phase = "done"
    /\ gen.saveError = Str("write failed")
    /\ gen.imageUrl = ImageUrl1
    /\ gen.res.status = 200

\* C4: a failed generate request is answered with the status of the first
\* test its error message matches (auth or token 401, not found 404, rate
\* limit 429, insufficient credits 402, else 500), and every failure
\* response has success false.
C4_FailureStatusAndShape ==
    (gen.phase = "done" /\ gen.res.status # 200)
        => /\ ResField(gen.res, "success") = Bool(FALSE)
           /\ gen.error # NoError =>
                LET m == gen.error.message
                    auth == MessageIncludes(m, "auth") \/ MessageIncludes(m, "token")
                    notFound == MessageIncludes(m, "not found")
                    rateLimit == MessageIncludes(m, "rate limit")
                    credits == MessageIncludes(m, "insufficient credits")
                IN  /\ auth => gen.res.status = 401
                    /\ (~auth /\ notFound) => gen.res.status = 404
                    /\ (~auth /\ ~notFound /\ rateLimit) => gen.res.status = 429
                    /\ (~auth /\ ~notFound /\ ~rateLimit /\ credits) => gen.res.status = 402
                    /\ (~auth /\ ~notFound /\ ~rateLimit /\ ~credits) => gen.res.status = 500

\* the image URL the normalization rule gives a provider output: whether the
\* shape is one of the four, and the URL it holds
Normalized(output) ==
    LET first(v) == IF IsArray(v) THEN First(v) ELSE v
    IN  IF IsString(output) THEN [known |-> TRUE, url |-> output]
        ELSE IF IsArray(output) THEN [known |-> TRUE, url |-> First(output)]
        ELSE IF Field(output, "output") # Undefined
        THEN [known |-> TRUE, url |-> first(Field(output, "output"))]
        ELSE IF Field(output, "output_paths") # Undefined
        THEN [known |-> TRUE, url |-> first(Field(output, "output_paths"))]
        ELSE [known |-> FALSE, url |-> Undefined]

C6_FailuresAnsweredInJson ==
    /\ alive
    /\ \A res \in {gen.res, dpi.res, last.res} : res.status >= 400 => res.kind = "json"

\* the path a category and a filename resolve to lies outside the directory
\* of the category
ResolvesOutside(category, filename) ==
    LET targetDir == getCategoryDir(category)
        filePath == PathJoin(targetDir, filename)
    IN  filePath # targetDir /\ ~StartsWith(filePath, targetDir \o "/")

\* C2: a delete whose filename resolves outside the directory of its
\* category is answered with 403 and removes no file.
C2_TraversalDeleteDenied ==
    [][(last.op = "none" /\ last'.op = "delete"
        /\ ResolvesOutside(last'.req.category.s, last'.req.filename.s))
            => (last'.res.status = 403 /\ disk' = disk)]_vars

\* C7: the file an upload writes lies inside <uploads-root>/<category>/,
\* whatever filename is given.
C7_UploadInsideCategory ==
    [][(last.op = "none" /\ last'.op = "upload")
            => \A p \in DOMAIN disk' :
                (p \notin DOMAIN disk \/ disk'[p] # disk[p])
                    => StartsWith(p, UPLOADS_DIR \o "/"
                            \o Default(last'.req.category, Str("customer")).s \o "/")]_vars

\* C8: storage is append-only: no step changes the content of a file that
\* exists, and a file disappears only through the delete operation.
C8_AppendOnly ==
    [][\A p \in DOMAIN disk :
            /\ p \in DOMAIN disk' => disk'[p] = disk[p]
            /\ p \notin DOMAIN disk' => (last.op = "none" /\ last'.op = "delete")]_vars

\* the request gives a prompt and a model and nothing else
PromptOnly(b) == b = Body(b.prompt, b.model)

\* the defaults documented for a model (README.md "Model Parameters")
DocumentedDefaults(model) ==
    CASE model = Str("seedream") ->
            [size |-> Str("regular"), guidance_scale |-> Dec("3.5")]
      [] model = Str("flux-schnell") ->
            [num_inference_steps |-> Num(4), go_fast |-> Bool(TRUE),
             megapixels |-> Str("1"), output_format |-> Str("webp"),
             output_quality |-> Num(80), disable_safety_checker |-> Bool(FALSE)]
      [] model = Str("flux-1.1-pro") ->
            [output_format |-> Str("webp"), output_quality |-> Num(80),
             safety_tolerance |-> Num(2), prompt_upsampling |-> Bool(FALSE)]
      [] model = Str("stable-diffusion") ->
            [width |-> Num(1024), height |-> Num(1024), num_outputs |-> Num(1),
             disable_nsfw_checker |-> Bool(FALSE), remove_background |-> Bool(FALSE),
             seed |-> Num(-1)]
      [] model = Str("openai-image-1.5") ->
            [quality |-> Str("auto"), background |-> Str("auto"),
             moderation |-> Str("auto"), output_format |-> Str("webp"),
             output_compression |-> Num(90), number_of_images |-> Num(1)]

\* C9: for each of the five models, a request that gives only a prompt and
\* the model is sent to the provider identifier of that model, with the
\* prompt, an aspect ratio, a seed in 0..999999 for seedream, and exactly the
\* documented defaults.
C9_DocumentedDefaults ==
    (gen.calls # <<>> /\ gen.body.model \in SupportedModels /\ PromptOnly(gen.body))
        => LET call == gen.calls[1]
               defaults == DocumentedDefaults(gen.body.model)
               others == IF gen.body.model = Str("stable-diffusion") THEN {"prompt"}
                         ELSE IF gen.body.model = Str("seedream")
                         THEN {"prompt", "aspect_ratio", "seed"}
                         ELSE {"prompt", "aspect_ratio"}
           IN  /\ call.model = replicateModelMulti(gen.body.model)
               /\ DOMAIN call.input = DOMAIN defaults \cup others
               /\ \A f \in DOMAIN defaults : call.input[f] = defaults[f]
               /\ gen.body.model = Str("seedream")
                    => (call.input.seed.n >= 0 /\ call.input.seed.n < RandomSeedRange)

\* C10: on the openai-image-1.5 path a requested ratio wider than tall is
\* sent as 3:2 and one taller than wide as 2:3.
C10_WiderAndTallerMapped ==
    (gen.calls # <<>> /\ gen.calls[1].model = "openai/gpt-image-1.5")
        => /\ gen.body.aspect_ratio \in Landscape
                => gen.calls[1].input.aspect_ratio = Str("3:2")
           /\ gen.body.aspect_ratio \in Portrait
                => gen.calls[1].input.aspect_ratio = Str("2:3")

\* C11: on the openai-image-1.5 path the aspect ratio sent is always one of
\* 1:1, 3:2 and 2:3, and a requested value that is absent or is no ratio the
\* mapping knows is sent as 1:1.
C11_AspectRatioTotal ==
    (gen.calls # <<>> /\ gen.calls[1].model = "openai/gpt-image-1.5")
        => /\ gen.calls[1].input.aspect_ratio \in {Str("1:1"), Str("3:2"), Str("2:3")}
           /\ gen.body.aspect_ratio \notin (Landscape \cup Portrait)
                => gen.calls[1].input.aspect_ratio = Str("1:1")

\* an unrecognized ratio has been sent as 1:1 by the backend build
C11_Witness ==
    /\ server = BACKEND
    /\ gen.calls # <<>>
    /\ gen.body.aspect_ratio = Str("banana")
    /\ gen.calls[1].input.aspect_ratio = Str("1:1")

\* C12: a request whose model is none of the five known ones is not
\* rejected: with a prompt and a token it is sent to the seedream provider
\* identifier with the seedream payload (prompt, aspect_ratio, size,
\* guidance_scale, seed).
C12_UnknownModelIsSeedream ==
    (/\ gen.phase # "idle"
     /\ gen.body.model \notin SupportedModels
     /\ IsString(gen.body.prompt) /\ ~BlankPrompt(gen.body.prompt)
     /\ ~Falsy(env.REPLICATE_API_TOKEN))
        => /\ gen.calls # <<>>
           /\ gen.calls[1].model = "bytedance/seedream-3"
           /\ DOMAIN gen.calls[1].input
                = {"prompt", "aspect_ratio", "size", "guidance_scale", "seed"}

\* C13: the payload sent to the provider has an openai_api_key only when the
\* request gave one, and then it is the request's.
C13_ApiKeyOnlyFromRequest ==
    \A i \in DOMAIN gen.calls :
        "openai_api_key" \in DOMAIN gen.calls[i].input
            => /\ Given(gen.body.openai_api_key)
               /\ gen.calls[i].input.openai_api_key = gen.body.openai_api_key

\* C14: the input_images sent to the provider are at most 5 and are the
\* first images of the request in the order given.
C14_InputImagesCapped ==
    \A i \in DOMAIN gen.calls :
        "input_images" \in DOMAIN gen.calls[i].input
            => LET sent == gen.calls[i].input.input_images.a
                   given == gen.body.input_images.a
               IN  /\ Len(sent) <= 5
                   /\ Len(sent) <= Len(given)
                   /\ \A k \in 1..Len(sent) : sent[k] = given[k]

\* C15: a delete whose category and filename name no stored file (inside
\* the category's directory) is answered 404 and changes nothing; a delete
\* answered 200 removes the file named and no other, so the same delete
\* repeated is answered 404.
C15_DeleteOfMissingFile ==
    [][(last.op = "none" /\ last'.op = "delete")
            => LET category == last'.req.category.s
                   filename == last'.req.filename.s
                   filePath == PathJoin(getCategoryDir(category), filename)
               IN  /\ (filePath \notin DOMAIN disk /\ ~ResolvesOutside(category, filename))
                        => (last'.res.status = 404 /\ disk' = disk)
                   /\ last'.res.status = 200
                        => /\ filePath \in DOMAIN disk
                           /\ disk' = [q \in DOMAIN disk \ {filePath} |-> disk[q]]]_vars

\* C16: on the openai-image-1.5 path number_of_images is 1 when the request
\* gives none, is never greater than 10, and is 10 for a request of more.
C16_NumberOfImagesClamped ==
    (gen.calls # <<>> /\ gen.calls[1].model = "openai/gpt-image-1.5")
        => LET sent == gen.calls[1].input.number_of_images
               asked == gen.body.number_of_images
           IN  /\ asked = Undefined => sent = Num(1)
               /\ sent = NaN \/ sent.n <= 10
               /\ (ToNumber(asked) # NaN /\ ToNumber(asked).n > 10) => sent = Num(10)

\* a request for 50 images has been sent as 10
C16_Witness ==
    /\ gen.calls # <<>>
    /\ gen.body.number_of_images = Num(50)
    /\ gen.calls[1].model = "openai/gpt-image-1.5"
    /\ gen.calls[1].input.number_of_images = Num(10)

\* the category names the API is given: the three the server names and the
\* style category ids of the image selection panel
AcceptedCategories == {"generated", "customer", "base", "men-outfits", "women-outfits"}

\* GET /api/images?category=B returns the stored file at path p: it is one
\* of readdirSync(getCategoryDir(B))
ListedUnder(p, B) == Dirname(p) = getCategoryDir(B)

\* DELETE /api/images/B/<the name of the file at p> removes the file at p
DeletableUnder(p, B) ==
    /\ PathJoin(getCategoryDir(B), Basename(p)) = p
    /\ ~deleteDenied(p, getCategoryDir(B))

\* C17: storage categories are isolated: the file an upload to category A
\* stores is not among the files a listing of any other accepted category B
\* returns, and no DELETE /api/images/B/<filename> removes it
C17_CategoriesIsolated ==
    [][(last.op = "none" /\ last'.op = "upload" /\ last'.res.status = 200) =>
        LET A == Default(last'.req.category, Str("customer")).s
            p == last'.res.body.o.path.s
        IN  \A B \in AcceptedCategories \ {A} :
                /\ p \in DOMAIN disk' => ~ListedUnder(p, B)
                /\ ~DeletableUnder(p, B)]_vars

\* C18: every url the server returns for a stored image names the place of
\* the file under the uploads root: the url of an upload and of a persisted
\* generation is served from the path the file was written to, and the url
\* of a listed image is served from the file the entry was read from
C18_UrlNamesStoredFile ==
    /\ (last.op = "upload" /\ last.res.status = 200) =>
            staticUploads(last.res.body.o.url.s) = last.res.body.o.path.s
    /\ (last.op = "list" /\ last.res.status = 200) =>
            \A i \in DOMAIN last.res.body.o.images.a :
                LET entry == last.res.body.o.images.a[i].o
                IN  staticUploads(entry.url.s)
                        = PathJoin(getCategoryDir(entry.category.s), entry.filename.s)
    /\ (gen.res.status = 200 /\ Field(gen.res.body, "savedImage") \notin {Undefined, Null}) =>
            staticUploads(gen.res.body.o.savedImage.o.url.s)
                = gen.res.body.o.savedImage.o.path.s

\* C19: every POST /api/download-with-dpi request ends with exactly one
\* response: no request is answered twice, and every request that has
\* arrived is answered, whatever the fetch, the worker's output, a worker
\* that cannot start, a failed write to its stdin and its close event do
C19_ExactlyOneResponse ==
    /\ [](dpi.sent <= 1)
    /\ (dpi.phase \in {"fetching", "running"}) ~> (dpi.sent = 1)

\* a not-found error: its message says "not found" or its status is 404
NotFoundError(error) ==
    MessageIncludes(error.message, "not found") \/ error.status = Num(404)

HeaderType(contentType) ==
    IF contentType \in {"image/jpeg", "image/jpg"} THEN "jpg"
    ELSE IF contentType = "image/png" THEN "png"
    ELSE IF contentType = "image/gif" THEN "gif"
    ELSE IF contentType = "image/webp" THEN "webp"
    ELSE ""

\* the image type the suffix of a URL names ("" when it names none)
SuffixType(url) ==
    IF EndsWith(url, ".jpg") \/ EndsWith(url, ".jpeg") THEN "jpg"
    ELSE IF EndsWith(url, ".png") THEN "png"
    ELSE ""

\* C23: the extension of an image saved from a URL is the type of the
\* content-type header whenever the header names an image type; the URL
\* suffix decides only when the header names none, and the extension is
\* webp only when neither names one
C23_ExtensionFromContentType ==
    (gen.phase = "done" /\ gen.fetched.ok /\ Field(gen.res.body, "savedImage") \notin {Undefined, Null}) =>
        LET filename == gen.res.body.o.savedImage.o.filename.s
            header == HeaderType(gen.fetched.contentType)
            suffix == SuffixType(gen.imageUrl.s)
        IN  EndsWith(filename, "." \o (IF header # "" THEN header
                                       ELSE IF suffix # "" THEN suffix
                                       ELSE "webp"))

\* the request ended on a failed fetch of the source image: no worker ran
FetchFailureAnswered ==
    dpi.phase = "done" /\ dpi.worker = "" /\ ~Falsy(dpi.req.imageUrl)

\* the request ended on a worker that could not decode or encode the image
ProcessingFailureAnswered == dpi.phase = "done" /\ dpi.worker = "rejected"

\* the response is a JSON error without image bytes or X-DPI headers
ErrorOnly(res) ==
    /\ res.kind = "json"
    /\ res.status = 500
    /\ DOMAIN res.body.o \subseteq {"error", "details"}

\* C24: a worker that fails to decode or encode the image is answered with an
\* error whose error field is not the one of a failed fetch of the source
\* image, and both answers carry no image bytes and no X-DPI headers
C24_ProcessingFailureDistinct ==
    /\ FetchFailureAnswered =>
            /\ ErrorOnly(dpi.res)
            /\ dpi.res.body.o.error = Str("Failed to process image")
    /\ ProcessingFailureAnswered =>
            /\ ErrorOnly(dpi.res)
            /\ dpi.res.body.o.error # Str("Failed to process image")

\* a rejected image answered "Python process failed"
C24_Witness ==
    /\ ProcessingFailureAnswered
    /\ dpi.res.body.o.error = Str("Python process failed")

\* the first provider call of the request is for this model with this option
Sends(model, option) ==
    /\ gen.calls # <<>>
    /\ gen.body.model = Str(model)
    /\ option \in DOMAIN gen.calls[1].input

\* C25: the payload never carries a numeric option outside its documented
\* domain: num_inference_steps in 1..4 for flux-schnell, safety_tolerance in
\* 1..6 for flux-1.1-pro, num_outputs in 1..4 for stable-diffusion
C25_NumericOptionsInDomain ==
    /\ Sends("flux-schnell", "num_inference_steps") =>
            gen.calls[1].input.num_inference_steps \in {Num(n) : n \in 1..4}
    /\ Sends("flux-1.1-pro", "safety_tolerance") =>
            gen.calls[1].input.safety_tolerance \in {Num(n) : n \in 1..6}
    /\ Sends("stable-diffusion", "num_outputs") =>
            gen.calls[1].input.num_outputs \in {Num(n) : n \in 1..4}

\* the request is for flux-1.1-pro and its provider call has been made
FluxProCalled == gen.calls # <<>> /\ gen.body.model = Str("flux-1.1-pro")

\* sent is the multiple of 32 nearest to given
NearestMultipleOf32(given, sent) ==
    /\ sent.n % 32 = 0
    /\ sent.n - given.n \in -16..16
    /\ given.n % 32 = 0 => sent = given

\* C26: for flux-1.1-pro with aspect_ratio custom each supplied width and
\* height is sent as the nearest multiple of 32, a multiple of 32 unchanged;
\* with another aspect ratio no width and no height is sent
C26_CustomSizeRounded ==
    FluxProCalled =>
        LET input == gen.calls[1].input
        IN  /\ (gen.body.aspect_ratio = Str("custom") /\ Given(gen.body.width)) =>
                    /\ "width" \in DOMAIN input
                    /\ NearestMultipleOf32(gen.body.width, input.width)
            /\ (gen.body.aspect_ratio = Str("custom") /\ Given(gen.body.height)) =>
                    /\ "height" \in DOMAIN input
                    /\ NearestMultipleOf32(gen.body.height, input.height)
            /\ gen.body.aspect_ratio # Str("custom") =>
                    DOMAIN input \cap {"width", "height"} = {}

\* the provider call carries the option as the caller gave it, when given
Forwarded(option) ==
    gen.body[option] # Undefined =>
        /\ option \in DOMAIN gen.calls[1].input
        /\ gen.calls[1].input[option] = gen.body[option]

\* C27: a default is applied only when the caller gives no value: the
\* output_compression of an OpenAI Image 1.5 call and the output_quality,
\* go_fast and disable_safety_checker of a flux-schnell call are the values
\* the caller gave, the values 0 and false included
C27_GivenValuesForwarded ==
    /\ (gen.calls # <<>> /\ gen.calls[1].model = "openai/gpt-image-1.5") =>
            Forwarded("output_compression")
    /\ (gen.calls # <<>> /\ gen.calls[1].model = "black-forest-labs/flux-schnell") =>
            /\ Forwarded("output_quality")
            /\ Forwarded("go_fast")
            /\ Forwarded("disable_safety_checker")

SafeName(name) ==
    /\ Len(name) \in 1..50
    /\ \A i \in 1..Len(name) : Includes(LowerCase \o "0123456789.-", CharAt(name, i))
    /\ \A i \in 1..(Len(name) - 1) : ~(CharAt(name, i) = "-" /\ CharAt(name, i + 1) = "-")

\* C30: safeFilename returns for every string a safe name, it is
\* idempotent, and the Content-Disposition header of a converted image
\* carries that name
C30_SafeFilename ==
    (dpi.phase # "idle" /\ IsString(dpi.req.filename)) =>
        LET safe == safeFilename(dpi.req.filename.s)
        IN  /\ SafeName(safe)
            /\ safeFilename(safe) = safe
            /\ (dpi.res.status = 200 /\ dpi.req.filename # Str("")) =>
                    dpi.res.body.o.ContentDisposition
                        = Str("attachment; filename=\"" \o safe \o "\"")

\* a converted image sent under a name that was cut to 50 characters
C30_Witness ==
    /\ dpi.res.status = 200
    /\ IsString(dpi.req.filename)
    /\ Len(dpi.req.filename.s) > 50
    /\ Len(safeFilename(dpi.req.filename.s)) = 50
    /\ dpi.res.body.o.ContentDisposition
            = Str("attachment; filename=\"" \o safeFilename(dpi.req.filename.s) \o "\"")

\* the requests of the batch that are in flight
BatchInFlight == {k \in DOMAIN ui.inflight : ui.inflight[k].by = "batch"}

\* C21: batch generation is sequential: at most one generate request of the
\* batch is in flight, it is the request of the prompt the loop stands at,
\* and the requests of all earlier prompts have settled
C21_BatchSequential ==
    /\ Cardinality(BatchInFlight) <= 1
    /\ \A k \in BatchInFlight :
            /\ ui.inflight[k].index = ui.batch.i
            /\ Len(ui.batch.outcomes) = ui.batch.i - 1
            /\ Len(ui.batch.attempted) = ui.batch.i

\* the request of the third prompt is in flight, the first two have settled
C21_Witness ==
    /\ ui.batch.running
    /\ ui.batch.i = 3
    /\ Len(ui.batch.outcomes) = 2
    /\ Cardinality(BatchInFlight) = 1

\* C22: regenerations do not lose updates: once no regeneration is in
\* flight, every index whose regeneration succeeded holds the image that
\* regeneration returned
C22_NoLostRegeneration ==
    regenerations = {} =>
        \A index \in DOMAIN ui.regenerated :
            /\ index \in DOMAIN ui.results
            /\ ui.results[index].image = ui.regenerated[index]

RECURSIVE Successes(_, _, _)
\* the results of the prompts from i on whose request succeeded, in order
Successes(b, i, acc) ==
    IF i > Len(b.outcomes) THEN acc
    ELSE Successes(b, i + 1,
            IF b.outcomes[i] = "success"
            THEN Append(acc, Result(b.promptLines[i], ImageOf(b.click, i)))
            ELSE acc)

\* C29: a failed prompt does not stop a batch: when generateImages ends,
\* every prompt line has been attempted once, in order, results holds the
\* successful generations in prompt order and generating is false; and a
\* batch that has started ends
C29_BatchRunsToEnd ==
    /\ [][(ui.batch.running /\ ~ui'.batch.running) =>
            /\ ui'.batch.attempted = ui'.batch.promptLines
            /\ Len(ui'.batch.outcomes) = Len(ui'.batch.promptLines)
            /\ ui'.results = Successes(ui'.batch, 1, <<>>)
            /\ ~ui'.generating]_vars
    /\ ui.generating ~> ~ui.generating

\* a batch of three prompts has ended: the first met a network error, the
\* second an error response, and results holds the third
C29_Witness ==
    /\ ~ui.batch.running
    /\ ~ui.generating
    /\ ui.batch.outcomes = <<"network", "error", "success">>
    /\ ui.results = <<Result("c", ImageOf(ui.batch.click, 3))>>

====
